---- MODULE Spec2Model ----
(***************************************************************************)
(* Watched-folder ingestion and rename-suggestion pipeline of nodeo.       *)
(*                                                                         *)
(* The model covers the persistent rows (watched folders, images, rename   *)
(* suggestions, activity log), the filesystem the working copies live on,  *)
(* the suggestion endpoints (approve / reject / edit / batch), the         *)
(* FileProcessor that imports a file and generates a suggestion, and the   *)
(* RenameExecutor (execute_suggestion, execute_batch, rollback_rename).    *)
(* Every handler is one action; filesystem and store failures are inputs   *)
(* of the action that the environment chooses.  The WatcherManager (the    *)
(* watcher registry, the processing queue with its consumer task and the   *)
(* folder scans) is modelled task by task: its coroutines are split at the *)
(* awaits where the event loop can run another task.                       *)
(***************************************************************************)
EXTENDS Integers, Sequences, FiniteSets, TLC

VARIABLES
    fs,             \* filesystem: path -> content, DOMAIN fs = existing files
    images,         \* Image rows: asset id -> row
    suggestions,    \* RenameSuggestion rows: suggestion id -> row
    folders,        \* WatchedFolder rows: folder id -> row
    activity_log,   \* ActivityLog rows in insertion order (id = index)
    next_uuid,      \* number of uuid4() storage ids handed out so far
    scoring,        \* the AI metadata _calculate_confidence is given, and its result
    running,        \* WatcherManager._running
    watchers,       \* WatcherManager.watchers: folder id -> registered or not
    observing,      \* folder id -> number of started, not yet stopped Observers
    queue,          \* WatcherManager.processing_queue
    workers,        \* the live _process_queue_worker tasks, oldest first
    scans,          \* the live scan_folder calls and set_folder_error tasks
    requests        \* HTTP requests that have read a suggestion and not yet written

watcher_vars == <<running, watchers, observing, queue, workers, scans>>
vars == <<fs, images, suggestions, folders, activity_log, next_uuid, scoring,
          running, watchers, observing, queue, workers, scans, requests>>

(***************************************************************************)
(* Bounds                                                                  *)
(***************************************************************************)
MaxImports == 2         \* process_file calls that reach the storage writes
MaxLog == 3             \* activity-log rows kept in the model
MaxBatch == 2           \* longest id list given to a batch endpoint
MaxDescLen == 110       \* longest AI description the score is checked for
MaxTags == 6            \* longest AI tag list the score is checked for

(***************************************************************************)
(* Filenames are sequences of dot-separated components:                    *)
(* "IMG_1.jpg.backup" is <<"IMG_1", "jpg", "backup">>.                     *)
(* A directory is <<kind, n>>, a path is <<directory, filename>>.          *)
(***************************************************************************)
FolderIds == {"f1"}
InitAssets == {1, 2}            \* assets imported before the model starts
SharedDirs == {<<"shared", 1>>, <<"shared", 2>>}
Stem == <<"IMG_1", "IMG_2", "IMG_3", "IMG_4">>
ImageName(i) == <<Stem[i], "jpg">>
\* filenames a client may put into a suggestion (update_suggestion) or that
\* the template expansion may produce
SuggestedNames == {<<"beach", "jpg">>, <<"IMG_2">>}

\* pathlib's Path.suffix: the last component when there is more than one
Suffix(name) == IF Len(name) > 1 THEN <<name[Len(name)]>> ELSE <<>>

\* str.endswith(suffix) for a suffix produced by Suffix
EndsWith(name, suffix) ==
    \/ suffix = <<>>
    \/ Len(name) > 1 /\ name[Len(name)] = suffix[1]

PathOf(dir, name) == <<dir, name>>
Exists(f, p) == p \in DOMAIN f
Remove(f, p) == [q \in DOMAIN f \ {p} |-> f[q]]
WriteFile(f, p, c) == (p :> c) @@ f
\* POSIX rename: the destination is replaced; renaming a file to itself is a no-op
OsRename(f, old, new) == IF old = new THEN f ELSE WriteFile(Remove(f, old), new, f[old])

(***************************************************************************)
(* Rows                                                                    *)
(***************************************************************************)
Statuses == {"pending", "approved", "rejected", "applied", "failed"}
NoName == <<>>

ImageRow(name, dir) ==
    [original_filename |-> name, current_filename |-> name, dir |-> dir,
     file_name |-> name]

FilePath(image) == PathOf(image.dir, image.file_name)

SuggestionRow(folder_id, asset_id, original, suggested, confidence) ==
    [watched_folder_id |-> folder_id, asset_id |-> asset_id,
     original_filename |-> original, suggested_filename |-> suggested,
     confidence_score |-> confidence, status |-> "pending"]

FolderRow(n) ==
    [status |-> "active", file_count |-> n, analyzed_count |-> n, pending_count |-> n,
     error_message |-> ""]

LogEntry(folder_id, asset_id, action, original, new, status, rollback) ==
    [watched_folder_id |-> folder_id, asset_id |-> asset_id, action_type |-> action,
     original_filename |-> original, new_filename |-> new, status |-> status,
     rollback |-> rollback]

\* the rows and files a handler works on, and what it returns
World == [fs |-> fs, images |-> images, suggestions |-> suggestions,
          folders |-> folders, log |-> activity_log,
          success |-> FALSE, error |-> "none", fired |-> "none"]

Return(w, success, error, fired) ==
    [w EXCEPT !.success = success, !.error = error, !.fired = fired]

Commit(w) ==
    /\ fs' = w.fs
    /\ images' = w.images
    /\ suggestions' = w.suggestions
    /\ folders' = w.folders
    /\ activity_log' = w.log

(***************************************************************************)
(* RenameExecutor.execute_suggestion                                       *)
(***************************************************************************)
\* failures the environment can inject into one execute_suggestion call:
\*   copy          shutil.copy2 raises before the backup file is created
\*   copy_partial  shutil.copy2 raises after the backup file was created
\*   rename        Path.rename raises; the restore from the backup works
\*   restore       Path.rename raises and so does the restoring shutil.move
\*   commit1       the first db.commit() raises; the handler's commit works
\*   commit1_lost  the first db.commit() raises and so does the handler's
\*   commit2       the second db.commit() raises; the handler's commit works
\*   commit2_lost  the second db.commit() raises and so does the handler's
\*   unlink        the backup's unlink after the commits raises (BackupFaults)
ExecFaults == {"none", "copy", "copy_partial", "rename", "restore",
               "commit1", "commit1_lost", "commit2", "commit2_lost"}
BackupFaults == ExecFaults \cup {"unlink"}

\* a status check that lets Pending suggestions through as well
IsApprovedOrPending(sug) == sug.status \in {"approved", "pending"}

IsApproved(sug) == sug.status = "approved"

\* "Ensure new filename has correct extension"
NewFilename(suggested, old_name) ==
    IF EndsWith(suggested, Suffix(old_name)) THEN suggested
    ELSE suggested \o Suffix(old_name)

\* "Check if target already exists"
\* a destination check that never reports a collision
TargetIgnored(f, old_path, new_path) == FALSE

TargetExists(f, old_path, new_path) == Exists(f, new_path) /\ new_path # old_path

BackupName(old_name) == old_name \o <<"backup">>

\* the except branch of execute_suggestion: an ERROR row and status FAILED in
\* one commit, which may itself fail (bare except: pass)
ExecuteErrorHandler(w, sid, handler_commits, fired) ==
    LET sug == w.suggestions[sid]
        error_log == LogEntry(sug.watched_folder_id, sug.asset_id, "error",
                              sug.original_filename, sug.suggested_filename,
                              "failure", FALSE)
    IN  IF handler_commits
        THEN Return([w EXCEPT !.log = Append(@, error_log),
                              !.suggestions[sid].status = "failed"],
                    FALSE, "exception", fired)
        ELSE Return(w, FALSE, "exception", fired)

\* a clean-up that leaves the backup where it is
BackupKept(f, backup_path, has_backup, fault) == f

\* "Clean up backup if rename succeeded": the unlink, whose failure is
\* swallowed by the bare except
CleanUp(f, backup_path, has_backup, fault) ==
    IF has_backup /\ Exists(f, backup_path) /\ fault # "unlink"
    THEN Remove(f, backup_path)
    ELSE f

\* lines 136-187: the two commits and the backup clean-up, after the rename
ExecuteStore(w, sid, fs2, new_filename, new_path, backup_path, has_backup, fault) ==
    LET sug == w.suggestions[sid]
        aid == sug.asset_id
        w_fs == [w EXCEPT !.fs = fs2]
        \* first commit: image row and status
        w1 == [w_fs EXCEPT !.images[aid].current_filename = new_filename,
                           !.images[aid].dir = new_path[1],
                           !.images[aid].file_name = new_path[2],
                           !.suggestions[sid].status = "applied"]
        activity == LogEntry(sug.watched_folder_id, aid, "rename",
                             sug.original_filename, new_filename, "success", FALSE)
        fid == sug.watched_folder_id
        dec == fid \in DOMAIN w.folders /\ w.folders[fid].pending_count > 0
        \* second commit: activity row and folder stats
        w2 == [w1 EXCEPT !.log = Append(@, activity),
                         !.folders = IF dec
                                     THEN [@ EXCEPT ![fid].pending_count = @ - 1]
                                     ELSE @]
        w3 == [w2 EXCEPT !.fs = CleanUp(@, backup_path, has_backup, fault)]
    IN  CASE fault \in {"commit1", "commit1_lost"} ->
                ExecuteErrorHandler(w_fs, sid, fault = "commit1", fault)
          [] fault \in {"commit2", "commit2_lost"} ->
                ExecuteErrorHandler(w1, sid, fault = "commit2", fault)
          [] fault = "unlink" /\ has_backup ->
                Return(w3, TRUE, "none", "unlink")
          [] OTHER -> Return(w3, TRUE, "none", "none")

\* lines 116-134: the rename, and the restore from the backup when it fails
ExecuteRename(w, sid, fs1, old_path, new_filename, new_path, backup_path, has_backup, fault) ==
    IF ~Exists(fs1, old_path)
    THEN Return([w EXCEPT !.fs = fs1], FALSE, "rename_failed", "none")
    ELSE IF fault \in {"rename", "restore"}
    THEN IF has_backup /\ Exists(fs1, backup_path)
         THEN IF fault = "restore"
              THEN Return([w EXCEPT !.fs = fs1], FALSE, "rename_failed", "restore")
              ELSE Return([w EXCEPT !.fs = OsRename(fs1, backup_path, old_path)],
                          FALSE, "rename_failed", "rename")
         ELSE Return([w EXCEPT !.fs = fs1], FALSE, "rename_failed", "rename")
    ELSE ExecuteStore(w, sid, OsRename(fs1, old_path, new_path), new_filename,
                      new_path, backup_path, has_backup, fault)

\* lines 102-114: the backup copy
ExecuteBackup(w, sid, old_path, new_filename, new_path, create_backup, fault) ==
    LET backup_path == PathOf(old_path[1], BackupName(old_path[2]))
    IN  IF ~create_backup
        THEN ExecuteRename(w, sid, w.fs, old_path, new_filename, new_path,
                           backup_path, FALSE, fault)
        ELSE IF ~Exists(w.fs, old_path)
        THEN Return(w, FALSE, "backup_failed", "none")
        ELSE IF fault = "copy"
        THEN Return(w, FALSE, "backup_failed", "copy")
        ELSE IF fault = "copy_partial"
        THEN Return([w EXCEPT !.fs = WriteFile(@, backup_path, "partial")],
                    FALSE, "backup_failed", "copy_partial")
        ELSE ExecuteRename(w, sid, WriteFile(w.fs, backup_path, w.fs[old_path]),
                           old_path, new_filename, new_path, backup_path, TRUE, fault)

ExecuteSuggestion(w, sid, create_backup, fault) ==
    IF sid \notin DOMAIN w.suggestions
    THEN Return(w, FALSE, "not_found", "none")
    ELSE IF ~IsApproved(w.suggestions[sid])
    THEN Return(w, FALSE, "not_approved", "none")
    ELSE IF w.suggestions[sid].asset_id \notin DOMAIN w.images
    THEN Return(w, FALSE, "no_asset", "none")
    ELSE LET image == w.images[w.suggestions[sid].asset_id]
             old_path == FilePath(image)
             new_filename == NewFilename(w.suggestions[sid].suggested_filename, old_path[2])
             new_path == PathOf(old_path[1], new_filename)
         IN  IF TargetExists(w.fs, old_path, new_path)
             THEN Return(w, FALSE, "target_exists", "none")
             ELSE ExecuteBackup(w, sid, old_path, new_filename, new_path,
                                create_backup, fault)

(***************************************************************************)
(* RenameExecutor.execute_batch                                            *)
(***************************************************************************)
BatchResult(sid, w) == [suggestion_id |-> sid, success |-> w.success, error |-> w.error]

\* the loop body is run for ids[i], then the loop goes on with i + 1
\* a loop that gives up at the first failed item
BatchStopsOnFailure(result, i, n) == i < n /\ result.success

BatchContinues(result, i, n) == i < n

RECURSIVE ExecuteBatchFrom(_, _, _, _, _, _, _)
ExecuteBatchFrom(w, ids, i, create_backups, fault_at, fault, results) ==
    IF i > Len(ids)
    THEN [w EXCEPT !.results = results]
    ELSE LET r == ExecuteSuggestion([w EXCEPT !.results = <<>>], ids[i], create_backups,
                                    IF i = fault_at THEN fault ELSE "none")
             out == Append(results, BatchResult(ids[i], r))
             w1 == [r EXCEPT !.fired = IF w.fired # "none" THEN w.fired ELSE r.fired,
                             !.success = w.success /\ r.success,
                             !.error = IF w.error # "none" THEN w.error ELSE r.error]
         IN  IF BatchContinues(r, i, Len(ids))
             THEN ExecuteBatchFrom(w1, ids, i + 1, create_backups, fault_at, fault, out)
             ELSE [w1 EXCEPT !.results = out]

Succeeded(results) == Cardinality({i \in DOMAIN results : results[i].success})
Failed(results) == Cardinality({i \in DOMAIN results : ~results[i].success})

\* the dict execute_batch returns
BatchSummary(ids, results) ==
    [total |-> Len(ids), succeeded |-> Succeeded(results), failed |-> Failed(results),
     results |-> results]

ExecuteBatch(w, ids, create_backups, fault_at, fault) ==
    ExecuteBatchFrom([fs |-> w.fs, images |-> w.images, suggestions |-> w.suggestions,
                      folders |-> w.folders, log |-> w.log, success |-> TRUE,
                      error |-> "none", fired |-> "none", results |-> <<>>],
                     ids, 1, create_backups, fault_at, fault, <<>>)

(***************************************************************************)
(* RenameExecutor.rollback_rename                                          *)
(***************************************************************************)
\*   rename   Path.rename raises
\*   commit1  the commit of the image row raises
\*   commit2  the commit of the new activity row raises
RollbackFaults == {"none", "rename", "commit1", "commit2"}

IsSuccessfulRename(log) == log.action_type = "rename" /\ log.status = "success"

\* "Check if can rollback"
RollbackBlocked(f, current_path, rollback_path) ==
    Exists(f, rollback_path) /\ rollback_path # current_path

\* a rollback that targets the name the asset already has
RollbackTargetNew(log) == log.new_filename

RollbackTarget(log) == log.original_filename

RollbackLog(log, aid, original_filename) ==
    LogEntry(log.watched_folder_id, aid, "rename", log.new_filename,
             original_filename, "success", TRUE)

RollbackRename(w, log_id, fault) ==
    IF log_id \notin DOMAIN w.log
    THEN Return(w, FALSE, "not_found", "none")
    ELSE IF w.log[log_id].action_type # "rename"
    THEN Return(w, FALSE, "not_rename", "none")
    ELSE IF w.log[log_id].status # "success"
    THEN Return(w, FALSE, "not_success", "none")
    ELSE IF w.log[log_id].asset_id \notin DOMAIN w.images
    THEN Return(w, FALSE, "no_asset", "none")
    ELSE IF RollbackTarget(w.log[log_id]) = NoName
    THEN Return(w, FALSE, "no_original", "none")
    ELSE LET log == w.log[log_id]
             aid == log.asset_id
             current_path == FilePath(w.images[aid])
             original_filename == RollbackTarget(log)
             rollback_path == PathOf(current_path[1], original_filename)
             w1 == [w EXCEPT !.fs = OsRename(@, current_path, rollback_path)]
             w2 == [w1 EXCEPT !.images[aid].current_filename = original_filename,
                              !.images[aid].dir = rollback_path[1],
                              !.images[aid].file_name = rollback_path[2]]
             w3 == [w2 EXCEPT !.log = Append(@, RollbackLog(log, aid, original_filename))]
         IN  IF RollbackBlocked(w.fs, current_path, rollback_path)
             THEN Return(w, FALSE, "original_exists", "none")
             ELSE IF ~Exists(w.fs, current_path)
             THEN Return(w, FALSE, "rename_failed", "none")
             ELSE IF fault = "rename"
             THEN Return(w, FALSE, "rename_failed", "rename")
             ELSE IF fault = "commit1"
             THEN Return(w1, FALSE, "exception", "commit1")
             ELSE IF fault = "commit2"
             THEN Return(w2, FALSE, "exception", "commit2")
             ELSE Return(w3, TRUE, "none", "none")

(***************************************************************************)
(* Suggestion endpoints (routers/suggestions.py)                           *)
(***************************************************************************)
\* a status check that lets Rejected suggestions be decided again
IsPendingOrRejected(sug) == sug.status \in {"pending", "rejected"}

IsPending(sug) == sug.status = "pending"

DecisionLog(sug, action) ==
    LogEntry(sug.watched_folder_id, sug.asset_id, action, sug.original_filename,
             sug.suggested_filename, "success", FALSE)

\* approve_suggestion / reject_suggestion: status, commit, activity row, commit
Decide(w, sid, status, action) ==
    IF sid \notin DOMAIN w.suggestions
    THEN Return(w, FALSE, "not_found", "none")
    ELSE IF ~IsPending(w.suggestions[sid])
    THEN Return(w, FALSE, "not_pending", "none")
    ELSE Return([w EXCEPT !.suggestions[sid].status = status,
                          !.log = Append(@, DecisionLog(w.suggestions[sid], action))],
                TRUE, "none", "none")

ApproveSuggestion(w, sid) == Decide(w, sid, "approved", "approve")
RejectSuggestion(w, sid) == Decide(w, sid, "rejected", "reject")

\* update_suggestion: only the suggested filename of a pending suggestion
UpdateSuggestion(w, sid, name) ==
    IF sid \notin DOMAIN w.suggestions
    THEN Return(w, FALSE, "not_found", "none")
    ELSE IF ~IsPending(w.suggestions[sid])
    THEN Return(w, FALSE, "not_pending", "none")
    ELSE Return([w EXCEPT !.suggestions[sid].suggested_filename = name],
                TRUE, "none", "none")

\* the rows "id IN ids AND status = PENDING" selects
BatchSelect(w, ids) ==
    {sid \in DOMAIN w.suggestions :
        (\E i \in DOMAIN ids : ids[i] = sid) /\ IsPending(w.suggestions[sid])}

RECURSIVE BatchDecideRows(_, _, _, _)
BatchDecideRows(w, rows, status, action) ==
    IF rows = {} THEN w
    ELSE LET sid == CHOOSE x \in rows : \A y \in rows : x <= y
         IN  BatchDecideRows(
                 [w EXCEPT !.suggestions[sid].status = status,
                           !.log = Append(@, DecisionLog(w.suggestions[sid], action))],
                 rows \ {sid}, status, action)

\* batch_approve_suggestions / batch_reject_suggestions: one commit for all rows
BatchDecide(w, ids, status, action) ==
    Return(BatchDecideRows(w, BatchSelect(w, ids), status, action), TRUE, "none", "none")

(***************************************************************************)
(* FileProcessor (workers/file_processor.py)                               *)
(***************************************************************************)
allowed_image_exts == {"jpg", "jpeg", "png", "gif", "webp", "bmp", "tiff"}
allowed_video_exts == {"mp4", "mov", "avi", "mkv", "webm"}

\* settings.suggestion_confidence_threshold, in thousandths
suggestion_confidence_threshold == 700

\* what llava_client.extract_metadata may answer: a failure, or the lengths of
\* the description and of the tag list and whether a scene is given
AiResults ==
    {[failed |-> TRUE, desc_len |-> 0, tag_count |-> 0, scene |-> FALSE],
     [failed |-> FALSE, desc_len |-> 0, tag_count |-> 2, scene |-> TRUE],
     [failed |-> FALSE, desc_len |-> 20, tag_count |-> 0, scene |-> FALSE],
     [failed |-> FALSE, desc_len |-> 20, tag_count |-> 0, scene |-> TRUE],
     [failed |-> FALSE, desc_len |-> 60, tag_count |-> 4, scene |-> TRUE]}

Min(a, b) == IF a <= b THEN a ELSE b

\* the sum of the score's terms without the final min(1.0, ...)
UnclampedConfidence(desc_len, tag_count, scene) ==
    (IF desc_len > 0 THEN 500 + (IF desc_len > 50 THEN Min(100, desc_len) ELSE 0) ELSE 0)
    + (IF tag_count > 0 THEN 300 + (IF tag_count > 3 THEN Min(100, tag_count * 20) ELSE 0)
       ELSE 0)
    + (IF scene THEN 200 ELSE 0)

\* _calculate_confidence, in thousandths
CalculateConfidence(desc_len, tag_count, scene) ==
    LET description == IF desc_len > 0
                       THEN 500 + (IF desc_len > 50 THEN Min(100, desc_len) ELSE 0)
                       ELSE 0
        tags == IF tag_count > 0
                THEN 300 + (IF tag_count > 3 THEN Min(100, tag_count * 20) ELSE 0)
                ELSE 0
        sc == IF scene THEN 200 ELSE 0
    IN  Min(1000, description + tags + sc)

\* a decision that looks at neither the description nor the score
GeneratesWhenAnalysed(ai) == ~ai.failed

\* _generate_suggestion decides whether a row is created
GeneratesSuggestion(ai) ==
    /\ ~ai.failed
    /\ ai.desc_len > 0
    /\ CalculateConfidence(ai.desc_len, ai.tag_count, ai.scene)
           >= suggestion_confidence_threshold

\* RenameEngine.generate_filename: the template expansion plus the extension
GenerateFilename(ext) == <<"beach">> \o ext

NewId(rows) == IF DOMAIN rows = {} THEN 1
               ELSE 1 + (CHOOSE x \in DOMAIN rows : \A y \in DOMAIN rows : y <= x)

\*   write_originals  storage_manager.write_file("originals", ...) raises
\*   write_working    storage_manager.write_file("working", ...) raises
\*   commit1          the commit of the rows (line 214) raises; the handler's
\*                    commit of the Error entry works
\*   commit1_lost     the commit of the rows raises and so does the handler's
\*   commit2          the commit of the Scan entry (line 231) raises; the
\*                    handler's commit works
\*   commit2_lost     the commit of the Scan entry raises and so does the
\*                    handler's
ProcessFaults == {"none", "write_originals", "write_working",
                  "commit1", "commit1_lost", "commit2", "commit2_lost"}

ProcessErrorLog(folder_id, name) ==
    LogEntry(folder_id, 0, "error", name, NoName, "failure", FALSE)

\* the except branch: the Error entry is added and committed, unless that
\* commit fails too
ProcessErrorHandler(w, folder_id, name, handler_commits, fired) ==
    IF handler_commits
    THEN Return([w EXCEPT !.log = Append(@, ProcessErrorLog(folder_id, name))],
                FALSE, "exception", fired)
    ELSE Return(w, FALSE, "exception", fired)

IsImage(name) == Suffix(name) # <<>> /\ Suffix(name)[1] \in allowed_image_exts
IsVideo(name) == Suffix(name) # <<>> /\ Suffix(name)[1] \in allowed_video_exts

\* "Check if already imported": an Image row whose file_path is the path given
AlreadyImported(w, path) == \E i \in DOMAIN w.images : FilePath(w.images[i]) = path

OriginalPath(uuid, name) == PathOf(<<"originals", uuid>>, name)
WorkingPath(uuid, name) == PathOf(<<"working", uuid>>, name)
MetadataPath(uuid) == PathOf(<<"metadata", uuid>>, <<"metadata", "json">>)

\* lines 101-146: the source file is read and copied into the storage layout
ProcessStorage(w, folder_id, path, uuid, fault) ==
    LET name == path[2]
        content == w.fs[path]
        w_o == [w EXCEPT !.fs = WriteFile(@, OriginalPath(uuid, name), content)]
        w_w == [w_o EXCEPT !.fs = WriteFile(WriteFile(@, WorkingPath(uuid, name), content),
                                            MetadataPath(uuid), "meta")]
    IN  IF fault = "write_originals"
        THEN ProcessErrorHandler(w, folder_id, name, TRUE, fault)
        ELSE IF fault = "write_working"
        THEN ProcessErrorHandler(w_o, folder_id, name, TRUE, fault)
        ELSE Return(w_w, TRUE, "none", "none")

\* lines 148-234: the Image row, the analysis, the suggestion, the folder
\* counters and the Scan entry.  folder is the WatchedFolder object loaded at
\* lines 67-70; the counters written are computed from it.
ProcessRows(w, folder, folder_id, path, uuid, ai, fault) ==
    LET name == path[2]
        aid == NewId(w.images)
        sid == NewId(w.suggestions)
        suggests == IsImage(name) /\ GeneratesSuggestion(ai)
        w_i == [w EXCEPT !.images = (aid :> ImageRow(name, WorkingPath(uuid, name)[1])) @@ @]
        w_s == IF suggests
               THEN [w_i EXCEPT !.suggestions =
                        (sid :> SuggestionRow(folder_id, aid, name,
                                              GenerateFilename(Suffix(name)),
                                              CalculateConfidence(ai.desc_len, ai.tag_count,
                                                                  ai.scene))) @@ @]
               ELSE w_i
        w_c == [w_s EXCEPT !.folders[folder_id].analyzed_count = folder.analyzed_count + 1,
                           !.folders[folder_id].pending_count =
                                IF suggests THEN folder.pending_count + 1 ELSE @]
        w_f == [w_c EXCEPT !.log = Append(@, LogEntry(folder_id, aid, "scan", name,
                                                      NoName, "success", FALSE))]
    IN  IF fault \in {"commit1", "commit1_lost"}
        THEN ProcessErrorHandler(w, folder_id, name, fault = "commit1", fault)
        ELSE IF fault \in {"commit2", "commit2_lost"}
        THEN ProcessErrorHandler(w_c, folder_id, name, fault = "commit2", fault)
        ELSE Return(w_f, TRUE, "none", "none")

\* lines 67-97: the checks process_file makes before it reads the file
ProcessChecks(w, folder_id, path) ==
    IF folder_id \notin DOMAIN w.folders
    THEN Return(w, FALSE, "no_folder", "none")
    ELSE IF ~Exists(w.fs, path)
    THEN Return(w, FALSE, "no_file", "none")
    ELSE IF AlreadyImported(w, path)
    THEN Return(w, TRUE, "already_imported", "none")
    ELSE IF ~(IsImage(path[2]) \/ IsVideo(path[2]))
    THEN Return(w, FALSE, "unsupported", "none")
    ELSE Return(w, TRUE, "none", "none")

\* process_file(folder_id, file_path); uuid is the fresh uuid4 of the call
ProcessFile(w, folder_id, path, uuid, ai, fault) ==
    LET checked == ProcessChecks(w, folder_id, path)
        stored == ProcessStorage(w, folder_id, path, uuid, fault)
    IN  IF checked.error # "none"
        THEN checked
        ELSE IF ~stored.success
        THEN stored
        ELSE ProcessRows(stored, w.folders[folder_id], folder_id, path, uuid, ai, fault)

(***************************************************************************)
(* Initial state: the rows and files earlier imports left behind           *)
(***************************************************************************)
Inbox == <<"inbox", 0>>
InboxFiles == {<<"IMG_3", "jpg">>, <<"clip", "mp4">>, <<"notes", "txt">>}
InboxPaths == {PathOf(Inbox, <<"IMG_3", "jpg">>), PathOf(Inbox, <<"clip", "mp4">>),
               PathOf(Inbox, <<"notes", "txt">>),
               PathOf(Inbox, <<"IMG_4", "jpg">>)}

\* files somebody else may have put next to the working copies
StrayFiles == {}

InitFs(dir, present, strays) ==
    [p \in {PathOf(dir[i], ImageName(i)) : i \in present \cap DOMAIN dir}
           \cup strays \cup {PathOf(Inbox, n) : n \in InboxFiles} |->
        IF p \in strays THEN "stray"
        ELSE IF p[1] = Inbox THEN "source"
        ELSE p[2][1]]

\* what process_file left behind for the assets it imported: a row and a
\* pending suggestion for each, counted in the folder row
InitRows(assets, dir, present, strays) ==
    /\ fs = InitFs(dir, present, strays)
    /\ images = [i \in assets |-> ImageRow(ImageName(i), dir[i])]
    /\ suggestions = [i \in assets |->
                        SuggestionRow("f1", i, ImageName(i), <<"beach", "jpg">>,
                                      CalculateConfidence(60, 4, TRUE))]
    /\ folders = [f \in FolderIds |-> FolderRow(Cardinality(assets))]
    /\ activity_log = <<>>
    /\ next_uuid = 0

\* WatcherManager.__init__; no HTTP request is being handled
ManagerCreated ==
    /\ requests = {}
    /\ running = FALSE
    /\ watchers = [f \in DOMAIN folders |-> FALSE]
    /\ observing = [f \in DOMAIN folders |-> 0]
    /\ queue = <<>>
    /\ workers = <<>>
    /\ scans = <<>>

\* no score is being computed
NotScored == [desc_len |-> 0, tag_count |-> 0, scene |-> FALSE, confidence |-> -1]

Init ==
    \E dir \in [InitAssets -> SharedDirs], present \in SUBSET InitAssets,
       strays \in SUBSET StrayFiles :
        /\ dir[1] = <<"shared", 1>>
        /\ 1 \in present
        /\ InitRows(InitAssets, dir, present, strays)
        /\ scoring = NotScored
        /\ ManagerCreated

(***************************************************************************)
(* Actions: one per handler call                                           *)
(***************************************************************************)
UnknownId == 0
CallIds == DOMAIN suggestions \cup {UnknownId}
\* "id IN (...)" reads the list as a set: one list for each set of ids
IdLists == {ids \in UNION {[1..n -> CallIds] : n \in 0..MaxBatch} :
                \A i, j \in DOMAIN ids : i < j => ids[i] < ids[j]}
ExecLists == UNION {[1..n -> DOMAIN suggestions] : n \in 0..MaxBatch}
\* the failure injected into a batch: none (position 0), or a commit that
\* raises inside the execute_suggestion call of the first item
BatchFaults == {"none", "commit2"}
BatchFaultAt == {0, 1}

Written(w) ==
    /\ Len(w.log) <= MaxLog
    /\ Commit(w)
    /\ UNCHANGED scoring
    /\ UNCHANGED watcher_vars

Done(w) ==
    /\ Written(w)
    /\ UNCHANGED requests

Approve(sid) ==
    LET w == ApproveSuggestion(World, sid)
    IN  Done(w) /\ UNCHANGED next_uuid

Reject(sid) ==
    LET w == RejectSuggestion(World, sid)
    IN  Done(w) /\ UNCHANGED next_uuid

Update(sid, name) ==
    LET w == UpdateSuggestion(World, sid, name)
    IN  Done(w) /\ UNCHANGED next_uuid

BatchApprove(ids) ==
    LET w == BatchDecide(World, ids, "approved", "approve")
    IN  Done(w) /\ UNCHANGED next_uuid

BatchReject(ids) ==
    LET w == BatchDecide(World, ids, "rejected", "reject")
    IN  Done(w) /\ UNCHANGED next_uuid

Execute(sid, create_backup, fault) ==
    LET w == ExecuteSuggestion(World, sid, create_backup, fault)
    IN  /\ w.fired = fault
        /\ Done(w)
        /\ UNCHANGED next_uuid

ExecuteBatchCall(ids, create_backups, fault_at, fault) ==
    LET w == ExecuteBatch(World, ids, create_backups, fault_at, fault)
    IN  /\ w.fired = fault
        /\ Done(w)
        /\ UNCHANGED next_uuid

Rollback(log_id, fault) ==
    LET w == RollbackRename(World, log_id, fault)
    IN  /\ w.fired = fault
        /\ Done(w)
        /\ UNCHANGED next_uuid

Process(folder_id, path, ai, fault) ==
    LET w == ProcessFile(World, folder_id, path, next_uuid + 1, ai, fault)
    IN  /\ next_uuid < MaxImports
        /\ w.fired = fault
        /\ Done(w)
        /\ next_uuid' = IF w.error \in {"none", "exception"}
                        THEN next_uuid + 1 ELSE next_uuid

Next ==
    \/ \E sid \in CallIds : Approve(sid)
    \/ \E sid \in CallIds : Reject(sid)
    \/ \E sid \in CallIds, name \in SuggestedNames : Update(sid, name)
    \/ \E ids \in IdLists : BatchApprove(ids)
    \/ \E ids \in IdLists : BatchReject(ids)
    \/ \E sid \in CallIds, b \in BOOLEAN, fault \in ExecFaults : Execute(sid, b, fault)
    \/ \E ids \in ExecLists, b \in BOOLEAN, k \in BatchFaultAt, fault \in BatchFaults :
            /\ k <= Len(ids)
            /\ (k = 0) = (fault = "none")
            /\ ExecuteBatchCall(ids, b, k, fault)
    \/ \E log_id \in 1..(Len(activity_log) + 1), fault \in RollbackFaults :
            Rollback(log_id, fault)

Spec == Init /\ [][Next]_vars

(***************************************************************************)
(* The ingestion side: process_file on the files of the inbox, and the     *)
(* lifecycle of the suggestions it generates; the failures of the         *)
(* RenameExecutor are explored in Spec                                     *)
(***************************************************************************)
InitIngest ==
    /\ InitRows({}, <<>>, {}, {})
    /\ scoring = NotScored
    /\ ManagerCreated

NextIngest ==
    \/ \E f \in FolderIds, path \in InboxPaths, ai \in AiResults, fault \in ProcessFaults :
            Process(f, path, ai, fault)
    \/ \E sid \in CallIds : Approve(sid)
    \/ \E sid \in CallIds : Reject(sid)
    \/ \E sid \in CallIds, b \in BOOLEAN : Execute(sid, b, "none")

SpecIngest == InitIngest /\ [][NextIngest]_vars

(***************************************************************************)
(* _calculate_confidence on its own: the image it is given has a           *)
(* description of any length up to MaxDescLen, up to MaxTags tags and a    *)
(* scene or none                                                           *)
(***************************************************************************)
InitConfidence ==
    /\ InitRows({}, <<>>, {}, {})
    /\ ManagerCreated
    /\ \E d \in 0..MaxDescLen, t \in 0..MaxTags, sc \in BOOLEAN :
            scoring = [desc_len |-> d, tag_count |-> t, scene |-> sc, confidence |-> -1]

Score ==
    /\ scoring.confidence = -1
    /\ scoring' = [scoring EXCEPT !.confidence =
                        CalculateConfidence(scoring.desc_len, scoring.tag_count,
                                            scoring.scene)]
    /\ UNCHANGED <<fs, images, suggestions, folders, activity_log, next_uuid>>
    /\ UNCHANGED watcher_vars
    /\ UNCHANGED requests

NextConfidence == Score

SpecConfidence == InitConfidence /\ [][NextConfidence]_vars

(***************************************************************************)
(* WatcherManager: the registry of folder watchers, the processing queue,  *)
(* its consumer task and the folder scans.  The event loop runs one task   *)
(* at a time and switches between tasks at an await, so each action is the *)
(* code a task runs from one await to the next one another task can see.   *)
(***************************************************************************)
MaxScans == 2
MaxQueue == 2

\* the watched folder f1 is the inbox directory; it exists throughout
WatchedFiles == {<<"IMG_3", "jpg">>, <<"notes", "txt">>}

\* a second watched folder, f2, whose directory was removed after the folder
\* was registered
MissingFolders == {"f2"}
AllFolders == FolderIds \cup MissingFolders
Missing == <<"missing", 0>>
FolderPath(folder_id) == IF folder_id \in MissingFolders THEN Missing ELSE Inbox

\* Path(folder_path).exists()
PathExists(folder_id) == folder_id \notin MissingFolders

FolderStatuses == {"active", "paused", "scanning", "error"}
NoSuchFolder == "Folder does not exist"

\* the src_path of the events the Observer delivers
EventNames == {<<"IMG_3", "jpg">>, <<"notes", "txt">>, <<"", "hidden", "jpg">>, <<"new_dir">>}
EventKinds == {"created", "modified"}

\* the outcomes of the analysis the consumer's imports get
WatcherAiResults == {ai \in AiResults : ai.failed \/ ai.desc_len = 60}

Item(folder_id, path) == [folder_id |-> folder_id, file_path |-> path]
NoItem == Item("", <<>>)

\* a consumer task: where it is in its loop, the item it holds, the folder
\* row process_file loaded for it and the uuid of its import
WaitingWorker == [pc |-> "waiting", item |-> NoItem, folder |-> FolderRow(0), uuid |-> 0]

\* _is_valid_file, and the same test in scan_folder
IsHidden(name) == name[1] = ""
IsValidFile(name) == (IsImage(name) \/ IsVideo(name)) /\ ~IsHidden(name)

\* a registry that never finds the folder registered
NeverRegistered(ws, folder_id) == FALSE

\* "folder_id in self.watchers"
HasWatcher(ws, folder_id) == ws[folder_id]

Registry(ws, obs, result) == [watchers |-> ws, observing |-> obs, result |-> result]

\* add_watcher: a WatcherThread is created, its Observer started, and it is
\* registered, unless the folder has a watcher already
\* WatcherThread.start returns before the Observer is started when the path
\* does not exist; the watcher is registered all the same
AddWatcher(ws, obs, folder_id) ==
    IF HasWatcher(ws, folder_id)
    THEN Registry(ws, obs, FALSE)
    ELSE Registry([ws EXCEPT ![folder_id] = TRUE],
                  [obs EXCEPT ![folder_id] = IF PathExists(folder_id) THEN @ + 1 ELSE @],
                  TRUE)

\* a task started with asyncio.create_task from the loop's own thread
ScanTask(folder_id) == [folder_id |-> folder_id, pc |-> "loaded"]
ErrorTask(folder_id) == [folder_id |-> folder_id, pc |-> "error"]

\* WatcherThread.start, called by add_watcher: the set_folder_error task
\* created for a path that does not exist
SetupError(ws, folder_id) ==
    IF ~HasWatcher(ws, folder_id) /\ ~PathExists(folder_id)
    THEN <<ErrorTask(folder_id)>>
    ELSE <<>>

\* a removal that leaves the registry as it is
WatcherLeft(ws, obs, folder_id) == Registry(ws, obs, FALSE)

\* remove_watcher: the registered watcher's Observer is stopped if it runs
RemoveWatcher(ws, obs, folder_id) ==
    IF ws[folder_id]
    THEN Registry([ws EXCEPT ![folder_id] = FALSE],
                  [obs EXCEPT ![folder_id] = IF @ > 0 THEN @ - 1 ELSE @], TRUE)
    ELSE Registry(ws, obs, FALSE)

Monitoring(ws, obs, fr) == [watchers |-> ws, observing |-> obs, folders |-> fr]

\* pause_watcher
PauseWatcher(ws, obs, fr, folder_id) ==
    LET r == RemoveWatcher(ws, obs, folder_id)
    IN  Monitoring(r.watchers, r.observing, [fr EXCEPT ![folder_id].status = "paused"])

\* resume_watcher
ResumeWatcher(ws, obs, fr, folder_id) ==
    LET r == AddWatcher(ws, obs, folder_id)
    IN  Monitoring(r.watchers, r.observing, [fr EXCEPT ![folder_id].status = "active"])

\* a set_folder_error that writes nothing
ErrorDropped(fr, folder_id, message) == fr

\* set_folder_error
SetFolderError(fr, folder_id, message) ==
    [fr EXCEPT ![folder_id].status = "error", ![folder_id].error_message = message]

\* _load_watched_folders: a watcher for each Active or Scanning folder
RECURSIVE LoadWatchers(_, _, _)
LoadWatchers(ws, obs, todo) ==
    IF todo = {}
    THEN Registry(ws, obs, TRUE)
    ELSE LET f == CHOOSE x \in todo : TRUE
             r == AddWatcher(ws, obs, f)
         IN  LoadWatchers(r.watchers, r.observing, todo \ {f})

\* stop(): every registered watcher is stopped and the registry cleared
StopWatchers(ws, obs) ==
    Registry([f \in DOMAIN ws |-> FALSE],
             [f \in DOMAIN obs |-> IF ws[f] /\ obs[f] > 0 THEN obs[f] - 1 ELSE obs[f]],
             TRUE)

\* a stop() that leaves the consumer tasks alone
WorkersLeft(ws) == ws

\* stop(): _worker_task.cancel() and the await of the task; CancelledError is
\* raised inside the task at the await it is suspended at, whether that is
\* the queue's get or an await inside process_file, and the task ends
CancelWorker(ws) == IF ws = <<>> THEN ws ELSE SubSeq(ws, 1, Len(ws) - 1)

\* on_created runs on the Observer's thread, which has no running event
\* loop: asyncio.create_task raises RuntimeError there and the coroutine
\* queue_file_for_processing is never run
CreateTaskFromObserverThread(q, item) == q

\* FolderEventHandler.on_created
OnCreated(q, folder_id, name, is_directory) ==
    IF is_directory
    THEN q
    ELSE IF IsValidFile(name)
    THEN CreateTaskFromObserverThread(q, Item(folder_id, PathOf(Inbox, name)))
    ELSE q

\* FolderEventHandler.on_modified
OnModified(q, folder_id, name, is_directory) == q

\* the files scan_folder finds: regular files of the folder with an allowed
\* extension and no leading dot, in the order rglob yields them
RECURSIVE SetToSeq(_)
SetToSeq(S) ==
    IF S = {} THEN <<>>
    ELSE LET x == CHOOSE y \in S : TRUE IN <<x>> \o SetToSeq(S \ {x})

\* a listing that takes every file of the folder
EveryFile(files, folder_id) ==
    SetToSeq({Item(folder_id, p) : p \in {q \in DOMAIN files : q[1] = FolderPath(folder_id)}})

ScanFiles(files, folder_id) ==
    SetToSeq({Item(folder_id, p) :
                p \in {q \in DOMAIN files : q[1] = FolderPath(folder_id) /\ IsValidFile(q[2])}})

\* scan_folder from one await to the next: the status set to Scanning, the
\* file_count of the listing, the status set back to Active
ScanMarked(fr, folder_id) == [fr EXCEPT ![folder_id].status = "scanning"]
ScanListed(fr, folder_id, found) == [fr EXCEPT ![folder_id].file_count = Len(found)]
ScanFinished(fr, folder_id) == [fr EXCEPT ![folder_id].status = "active"]

Scanned(fr, q) == [folders |-> fr, queue |-> q]

\* scan_folder when no other task runs between its awaits
ScanFolder(fr, q, files, folder_id) ==
    LET marked == ScanMarked(fr, folder_id)
        found == ScanFiles(files, folder_id)
    IN  IF ~PathExists(folder_id)
        THEN Scanned(SetFolderError(marked, folder_id, NoSuchFolder), q)
        ELSE Scanned(ScanFinished(ScanListed(marked, folder_id, found), folder_id),
                     q \o found)

RemoveAt(s, i) == SubSeq(s, 1, i - 1) \o SubSeq(s, i + 1, Len(s))

\* -------------------------------------------------------------------------
\* start()
Start ==
    /\ ~running
    /\ LET load == {f \in DOMAIN folders : folders[f].status \in {"active", "scanning"}}
           scan == SetToSeq({ScanTask(f) : f \in {g \in load : folders[g].status = "active"}})
                   \o SetToSeq({ErrorTask(f) : f \in {g \in load : SetupError(watchers, g) # <<>>}})
           r == LoadWatchers(watchers, observing, load)
       IN  /\ Len(scans) + Len(scan) <= MaxScans
           /\ running' = TRUE
           /\ watchers' = r.watchers
           /\ observing' = r.observing
           /\ scans' = scans \o scan
           /\ workers' = Append(workers, WaitingWorker)
    /\ UNCHANGED <<fs, images, suggestions, folders, activity_log, next_uuid, scoring, requests, queue>>

\* stop()
Stop ==
    /\ running
    /\ LET r == StopWatchers(watchers, observing)
       IN  /\ running' = FALSE
           /\ watchers' = r.watchers
           /\ observing' = r.observing
           /\ workers' = CancelWorker(workers)
    /\ UNCHANGED <<fs, images, suggestions, folders, activity_log, next_uuid, scoring, requests,
                   queue, scans>>

\* PUT /folders/{id} with status Paused: pause_watcher
Pause(folder_id) ==
    /\ folders[folder_id].status # "paused"
    /\ LET r == PauseWatcher(watchers, observing, folders, folder_id)
       IN  /\ watchers' = r.watchers
           /\ observing' = r.observing
           /\ folders' = r.folders
    /\ UNCHANGED <<fs, images, suggestions, activity_log, next_uuid, scoring, requests,
                   running, queue, workers, scans>>

\* PUT /folders/{id} with status Active on a Paused folder: resume_watcher
Resume(folder_id) ==
    /\ folders[folder_id].status = "paused"
    /\ Len(scans) + Len(SetupError(watchers, folder_id)) <= MaxScans
    /\ LET r == ResumeWatcher(watchers, observing, folders, folder_id)
       IN  /\ watchers' = r.watchers
           /\ observing' = r.observing
           /\ folders' = r.folders
    /\ scans' = scans \o SetupError(watchers, folder_id)
    /\ UNCHANGED <<fs, images, suggestions, activity_log, next_uuid, scoring, requests,
                   running, queue, workers>>

\* PATCH /folders/{id} with any other status: the handler assigns the
\* requested status to the row and commits, and calls no manager operation
UpdateStatus(folder_id, status) ==
    /\ folders[folder_id].status # status
    /\ status # "paused"
    /\ ~(status = "active" /\ folders[folder_id].status = "paused")
    /\ folders' = [folders EXCEPT ![folder_id].status = status]
    /\ UNCHANGED <<fs, images, suggestions, activity_log, next_uuid, scoring, requests>>
    /\ UNCHANGED watcher_vars

\* POST /folders/{id}/rescan up to its call of scan_folder: 409 when the
\* status read is Scanning
Rescan(folder_id) ==
    /\ Len(scans) < MaxScans
    /\ folders[folder_id].status # "scanning"
    /\ scans' = Append(scans, ScanTask(folder_id))
    /\ UNCHANGED <<fs, images, suggestions, folders, activity_log, next_uuid, scoring, requests,
                   running, watchers, observing, queue, workers>>

\* scan_folder, lines 243-245: the status is set to Scanning and committed
ScanMark(i) ==
    /\ scans[i].pc = "loaded"
    /\ folders' = ScanMarked(folders, scans[i].folder_id)
    /\ scans' = [scans EXCEPT ![i].pc = "marked"]
    /\ UNCHANGED <<fs, images, suggestions, activity_log, next_uuid, scoring, requests,
                   running, watchers, observing, queue, workers>>

\* scan_folder, lines 247-271: the files are listed, file_count committed and
\* each file put on the queue; a path that does not exist ends the scan with
\* set_folder_error
ScanList(i) ==
    /\ scans[i].pc = "marked"
    /\ LET found == ScanFiles(fs, scans[i].folder_id)
       IN  IF PathExists(scans[i].folder_id)
           THEN /\ Len(queue) + Len(found) <= MaxQueue
                /\ folders' = ScanListed(folders, scans[i].folder_id, found)
                /\ queue' = queue \o found
                /\ scans' = [scans EXCEPT ![i].pc = "listed"]
           ELSE /\ folders' = SetFolderError(folders, scans[i].folder_id, NoSuchFolder)
                /\ queue' = queue
                /\ scans' = RemoveAt(scans, i)
    /\ UNCHANGED <<fs, images, suggestions, activity_log, next_uuid, scoring, requests,
                   running, watchers, observing, workers>>

\* scan_folder, lines 274-278: the row is refreshed and set back to Active
ScanFinish(i) ==
    /\ scans[i].pc = "listed"
    /\ folders' = ScanFinished(folders, scans[i].folder_id)
    /\ scans' = RemoveAt(scans, i)
    /\ UNCHANGED <<fs, images, suggestions, activity_log, next_uuid, scoring, requests,
                   running, watchers, observing, queue, workers>>

\* the set_folder_error task WatcherThread.start created
SetupFailed(i) ==
    /\ scans[i].pc = "error"
    /\ folders' = SetFolderError(folders, scans[i].folder_id, NoSuchFolder)
    /\ scans' = RemoveAt(scans, i)
    /\ UNCHANGED <<fs, images, suggestions, activity_log, next_uuid, scoring, requests,
                   running, watchers, observing, queue, workers>>

\* the Observer of a registered watcher delivers an event to its handler
FileEvent(folder_id, kind, name, is_directory) ==
    /\ watchers[folder_id]
    /\ queue' = IF kind = "created"
                THEN OnCreated(queue, folder_id, name, is_directory)
                ELSE OnModified(queue, folder_id, name, is_directory)
    /\ UNCHANGED <<fs, images, suggestions, folders, activity_log, next_uuid, scoring, requests,
                   running, watchers, observing, workers, scans>>

\* _process_queue_worker: the queue's get returns an item
Dequeue(i) ==
    /\ running
    /\ workers[i].pc = "waiting"
    /\ queue # <<>>
    /\ workers' = [workers EXCEPT ![i].pc = "loading", ![i].item = Head(queue)]
    /\ queue' = Tail(queue)
    /\ UNCHANGED <<fs, images, suggestions, folders, activity_log, next_uuid, scoring, requests,
                   running, watchers, observing, scans>>

\* process_file up to the call of the analysis: the folder row is loaded, the
\* checks made and the file copied into storage
Import(i) ==
    LET item == workers[i].item
        checked == ProcessChecks(World, item.folder_id, item.file_path)
        stored == ProcessStorage(World, item.folder_id, item.file_path, next_uuid + 1, "none")
    IN  /\ workers[i].pc = "loading"
        /\ next_uuid < MaxImports
        /\ IF checked.error = "none"
           THEN /\ Commit(stored)
                /\ next_uuid' = next_uuid + 1
                /\ workers' = [workers EXCEPT ![i].pc = "analysing",
                                              ![i].folder = folders[item.folder_id],
                                              ![i].uuid = next_uuid + 1]
           ELSE /\ Commit(checked)
                /\ UNCHANGED next_uuid
                /\ workers' = [workers EXCEPT ![i] = WaitingWorker]
        /\ UNCHANGED <<scoring, requests, running, watchers, observing, queue, scans>>

\* process_file from the analysis on: the rows, the counters computed from
\* the folder row loaded before the analysis, the commits; then task_done
Analyse(i, ai) ==
    LET item == workers[i].item
        w == ProcessRows(World, workers[i].folder, item.folder_id, item.file_path,
                         workers[i].uuid, ai, "none")
    IN  /\ workers[i].pc = "analysing"
        /\ Commit(w)
        /\ workers' = [workers EXCEPT ![i] = WaitingWorker]
        /\ UNCHANGED <<next_uuid, scoring, requests, running, watchers, observing, queue, scans>>

InitWatcher ==
    /\ fs = [p \in {PathOf(Inbox, n) : n \in WatchedFiles} |-> "source"]
    /\ images = <<>>
    /\ suggestions = <<>>
    /\ folders = [f \in FolderIds |-> FolderRow(0)]
    /\ activity_log = <<>>
    /\ next_uuid = 0
    /\ scoring = NotScored
    /\ ManagerCreated

NextWatcher ==
    \/ Start
    \/ Stop
    \/ \E f \in FolderIds : Pause(f)
    \/ \E f \in FolderIds : Resume(f)
    \/ \E f \in FolderIds : Rescan(f)
    \/ \E i \in DOMAIN scans : ScanMark(i)
    \/ \E i \in DOMAIN scans : ScanList(i)
    \/ \E i \in DOMAIN scans : ScanFinish(i)
    \/ \E f \in FolderIds, kind \in EventKinds, name \in EventNames, d \in BOOLEAN :
            FileEvent(f, kind, name, d)
    \/ \E i \in DOMAIN workers : Dequeue(i)
    \/ \E i \in DOMAIN workers : Import(i)
    \/ \E i \in DOMAIN workers, ai \in WatcherAiResults : Analyse(i, ai)

SpecWatcher == InitWatcher /\ [][NextWatcher]_vars

(***************************************************************************)
(* The writers of a folder's counters: the consumer's process_file, the    *)
(* scans, and execute_suggestion called by an HTTP handler for a           *)
(* suggestion a client approved                                            *)
(***************************************************************************)
NextCounters ==
    \/ Start
    \/ \E f \in FolderIds : Rescan(f)
    \/ \E i \in DOMAIN scans : ScanMark(i)
    \/ \E i \in DOMAIN scans : ScanList(i)
    \/ \E i \in DOMAIN scans : ScanFinish(i)
    \/ \E i \in DOMAIN workers : Dequeue(i)
    \/ \E i \in DOMAIN workers : Import(i)
    \/ \E i \in DOMAIN workers, ai \in WatcherAiResults : Analyse(i, ai)
    \/ \E sid \in DOMAIN suggestions : Approve(sid)
    \/ \E sid \in DOMAIN suggestions : Execute(sid, FALSE, "none")

SpecCounters == InitWatcher /\ [][NextCounters]_vars

(***************************************************************************)
(* Two watched folders, one of them with a directory that no longer        *)
(* exists, under the manager's operations and the folder endpoints; the    *)
(* queue has no consumer here                                              *)
(***************************************************************************)
FolderFiles == WatchedFiles \cup {<<"", "thumb", "jpg">>}

\* f2 was paused by a client before its directory was removed
FoldersWith(status) ==
    [f \in AllFolders |-> IF f \in MissingFolders
                          THEN [FolderRow(0) EXCEPT !.status = "paused"]
                          ELSE [FolderRow(0) EXCEPT !.status = status]]

InitFolders ==
    /\ fs = [p \in {PathOf(Inbox, n) : n \in FolderFiles} |-> "source"]
    /\ images = <<>>
    /\ suggestions = <<>>
    /\ folders = FoldersWith("active")
    /\ activity_log = <<>>
    /\ next_uuid = 0
    /\ scoring = NotScored
    /\ ManagerCreated

NextFolders ==
    \/ Start
    \/ Stop
    \/ \E f \in AllFolders : Pause(f)
    \/ \E f \in AllFolders : Resume(f)
    \/ \E f \in AllFolders, status \in FolderStatuses : UpdateStatus(f, status)
    \/ \E f \in AllFolders : Rescan(f)
    \/ \E i \in DOMAIN scans : ScanMark(i)
    \/ \E i \in DOMAIN scans : ScanList(i)
    \/ \E i \in DOMAIN scans : ScanFinish(i)
    \/ \E i \in DOMAIN scans : SetupFailed(i)

SpecFolders == InitFolders /\ [][NextFolders]_vars

(***************************************************************************)
(* The manager started after a restart that interrupted a scan of f1: the  *)
(* row still has the status Scanning the scan committed.  The event loop   *)
(* runs every task that is ready, and start() is called whenever it can    *)
(* be, a manager that is never started being none the property is about;   *)
(* the clients' requests come or do not.  A scan is only started while     *)
(* the queue has room for what it will list, so that no scan waits for     *)
(* room.                                                                   *)
(***************************************************************************)
Unlisted == Cardinality({i \in DOMAIN scans : scans[i].pc \in {"loaded", "marked"}})
Listing == Len(ScanFiles(fs, CHOOSE f \in AllFolders : PathExists(f)))
QueueRoom(n) == Len(queue) + (Unlisted + n) * Listing <= MaxQueue

StartInRoom ==
    /\ QueueRoom(Cardinality({f \in DOMAIN folders : folders[f].status = "active"}))
    /\ Start

RescanInRoom(folder_id) == QueueRoom(1) /\ Rescan(folder_id)

ScanStep(i) ==
    /\ i \in DOMAIN scans
    /\ ScanMark(i) \/ ScanList(i) \/ ScanFinish(i) \/ SetupFailed(i)

InitRestart ==
    /\ fs = [p \in {PathOf(Inbox, n) : n \in FolderFiles} |-> "source"]
    /\ images = <<>>
    /\ suggestions = <<>>
    /\ folders = FoldersWith("scanning")
    /\ activity_log = <<>>
    /\ next_uuid = 0
    /\ scoring = NotScored
    /\ ManagerCreated

NextRestart ==
    \/ StartInRoom
    \/ Stop
    \/ \E f \in AllFolders : Pause(f)
    \/ \E f \in AllFolders : Resume(f)
    \/ \E f \in AllFolders : RescanInRoom(f)
    \/ \E i \in 1..MaxScans : ScanStep(i)

SpecRestart ==
    /\ InitRestart
    /\ [][NextRestart]_vars
    /\ SF_vars(StartInRoom)
    /\ \A i \in 1..MaxScans : WF_vars(ScanStep(i))

(***************************************************************************)
(* execute_suggestion with backups: the assets' directories may hold a     *)
(* file with the name of a backup before any call is made, and the         *)
(* clean-up of the backup may fail like every other file operation         *)
(***************************************************************************)
BackupStrays == {PathOf(<<"shared", 1>>, BackupName(ImageName(1)))}

InitBackup ==
    \E dir \in [InitAssets -> SharedDirs], strays \in SUBSET BackupStrays :
        /\ dir[1] = <<"shared", 1>>
        /\ InitRows(InitAssets, dir, InitAssets, strays)
        /\ scoring = NotScored
        /\ ManagerCreated

NextBackup ==
    \/ \E sid \in DOMAIN suggestions : Approve(sid)
    \/ \E sid \in DOMAIN suggestions, name \in SuggestedNames : Update(sid, name)
    \/ \E sid \in DOMAIN suggestions, b \in BOOLEAN, fault \in BackupFaults :
            Execute(sid, b, fault)
    \/ \E log_id \in DOMAIN activity_log : Rollback(log_id, "none")

SpecBackup == InitBackup /\ [][NextBackup]_vars

(***************************************************************************)
(* Concurrent requests on the suggestions.  approve_suggestion,            *)
(* reject_suggestion and execute_suggestion each load the suggestion with  *)
(* a select and write it with a later commit, each in a session of its     *)
(* own; other requests run between the two.                                *)
(***************************************************************************)
RequestKinds == {"approve", "reject", "execute"}

Request(kind, sid, status) == [kind |-> kind, sid |-> sid, status |-> status]

\* the check a handler makes on the status it has read
Admits(kind, sug) == IF kind = "execute" THEN IsApproved(sug) ELSE IsPending(sug)

\* the rows as the handler of the request sees them: the suggestion is the
\* object its select loaded, the rest is read after that
AsLoaded(w, req) == [w EXCEPT !.suggestions[req.sid].status = req.status]

\* the select of a handler returns the suggestion; a request whose check
\* fails is answered at once
ReadSuggestion(kind, sid) ==
    /\ Admits(kind, suggestions[sid])
    /\ requests' = requests \cup {Request(kind, sid, suggestions[sid].status)}
    /\ UNCHANGED <<fs, images, suggestions, folders, activity_log, next_uuid, scoring>>
    /\ UNCHANGED watcher_vars

\* the rest of the handler, from its status check to its last commit
WriteSuggestion(req) ==
    LET loaded == AsLoaded(World, req)
        w == CASE req.kind = "approve" -> ApproveSuggestion(loaded, req.sid)
               [] req.kind = "reject" -> RejectSuggestion(loaded, req.sid)
               [] OTHER -> ExecuteSuggestion(loaded, req.sid, FALSE, "none")
    IN  /\ Written(w)
        /\ requests' = requests \ {req}
        /\ UNCHANGED next_uuid

InitRace ==
    \E dir \in [InitAssets -> SharedDirs] :
        /\ InitRows(InitAssets, dir, InitAssets, {})
        /\ scoring = NotScored
        /\ ManagerCreated

NextRace ==
    \/ \E kind \in RequestKinds, sid \in DOMAIN suggestions : ReadSuggestion(kind, sid)
    \/ \E req \in requests : WriteSuggestion(req)

SpecRace == InitRace /\ [][NextRace]_vars

(***************************************************************************)
(* Properties of execute_suggestion.  Each one is stated for every call    *)
(* the handler can receive in a reachable state: w is the state the call   *)
(* returns with, World the state it was made in.                           *)
(***************************************************************************)
ApprovedIds == {sid \in DOMAIN suggestions : IsApproved(suggestions[sid])}
AssetOf(sid) == suggestions[sid].asset_id
OldPath(sid) == FilePath(images[AssetOf(sid)])
NewName(sid) == NewFilename(suggestions[sid].suggested_filename, OldPath(sid)[2])
NewPath(sid) == PathOf(OldPath(sid)[1], NewName(sid))
\* C1: when execute_suggestion returns for an Approved suggestion, either it
\* failed and the files are exactly as before the call, or it succeeded and
\* the file is at the new path and not at the old one, with no other file
\* added or removed.
C1_FilesystemAllOrNothing ==
    \A sid \in ApprovedIds, b \in BOOLEAN, fault \in ExecFaults :
        LET w == ExecuteSuggestion(World, sid, b, fault)
        IN  IF w.success
            THEN /\ Exists(w.fs, NewPath(sid))
                 /\ DOMAIN w.fs = (DOMAIN fs \ {OldPath(sid)}) \cup {NewPath(sid)}
            ELSE w.fs = fs

\* C2: execute_suggestion on a suggestion that is not Approved fails with the
\* state-conflict error and changes no file and no row, and no step takes a
\* suggestion from Pending to Applied.
C2_ExecuteRequiresApproved ==
    /\ [](\A sid \in DOMAIN suggestions \ ApprovedIds, b \in BOOLEAN, fault \in ExecFaults :
            LET w == ExecuteSuggestion(World, sid, b, fault)
            IN  /\ ~w.success
                /\ w.error = "not_approved"
                /\ w.fs = fs
                /\ w.images = images
                /\ w.suggestions = suggestions
                /\ w.folders = folders
                /\ w.log = activity_log)
    /\ [][\A sid \in DOMAIN suggestions :
            suggestions[sid].status = "pending"
                => suggestions'[sid].status # "applied"]_vars

\* a suggestion that is not Approved although its file is there and its target
\* is free, after another suggestion has been applied
C2_Witness ==
    \E sid \in DOMAIN suggestions, other \in DOMAIN suggestions :
        /\ suggestions[sid].status \in {"pending", "rejected"}
        /\ suggestions[other].status = "applied"
        /\ Exists(fs, OldPath(sid))
        /\ ~Exists(fs, NewPath(sid))
        /\ ExecuteSuggestion(World, sid, TRUE, "none").error = "not_approved"

\* C3: when a file other than the source already exists at the
\* extension-corrected destination, execute_suggestion fails and leaves every
\* file (the destination included) and every row as it was.
C3_NeverOverwritesDestination ==
    \A sid \in ApprovedIds, b \in BOOLEAN, fault \in ExecFaults :
        (Exists(fs, NewPath(sid)) /\ NewPath(sid) # OldPath(sid))
            => LET w == ExecuteSuggestion(World, sid, b, fault)
               IN  /\ ~w.success
                   /\ w.fs = fs
                   /\ w.images = images
                   /\ w.suggestions = suggestions
                   /\ w.folders = folders
                   /\ w.log = activity_log

\* an Approved suggestion, its source file present, whose destination is taken
C3_Witness ==
    \E sid \in ApprovedIds :
        /\ Exists(fs, OldPath(sid))
        /\ Exists(fs, NewPath(sid))
        /\ NewPath(sid) # OldPath(sid)
        /\ ExecuteSuggestion(World, sid, TRUE, "none").error = "target_exists"

\* C4: the image row update, the status Applied, the pending_count decrement
\* and the Rename activity row are persisted together or not at all, whatever
\* fails during the call, and a successful call has all four.
C4_SuccessEffectsAtomic ==
    \A sid \in ApprovedIds, b \in BOOLEAN, fault \in ExecFaults :
        LET w == ExecuteSuggestion(World, sid, b, fault)
            aid == AssetOf(sid)
            fid == suggestions[sid].watched_folder_id
            renamed == Len(w.log) = Len(activity_log) + 1
                       /\ w.log[Len(w.log)].action_type = "rename"
                       /\ w.log[Len(w.log)].status = "success"
            all == /\ w.images[aid].current_filename = NewName(sid)
                   /\ FilePath(w.images[aid]) = NewPath(sid)
                   /\ w.suggestions[sid].status = "applied"
                   /\ w.folders[fid].pending_count = folders[fid].pending_count - 1
                   /\ renamed
            none == /\ w.images = images
                    /\ w.suggestions[sid].status # "applied"
                    /\ w.folders = folders
                    /\ ~renamed
        IN  /\ w.success => all
            /\ all \/ none

\* C5: a failed execute_suggestion on an Approved suggestion leaves it Failed;
\* of two Approved suggestions with the same target in one directory the first
\* execute succeeds and the second leaves its suggestion Failed and its source
\* file untouched.
C5_FailureMarksFailed ==
    /\ \A sid \in ApprovedIds, b \in BOOLEAN, fault \in ExecFaults :
            LET w == ExecuteSuggestion(World, sid, b, fault)
            IN  ~w.success => w.suggestions[sid].status = "failed"
    /\ \A s1 \in ApprovedIds, s2 \in ApprovedIds :
            (/\ s1 # s2
             /\ NewPath(s1) = NewPath(s2)
             /\ Exists(fs, OldPath(s1)) /\ Exists(fs, OldPath(s2))
             /\ ~Exists(fs, NewPath(s1)))
                => LET w1 == ExecuteSuggestion(World, s1, TRUE, "none")
                       w2 == ExecuteSuggestion(w1, s2, TRUE, "none")
                   IN  /\ w1.success
                       /\ ~w2.success
                       /\ w2.suggestions[s2].status = "failed"
                       /\ w2.fs[OldPath(s2)] = fs[OldPath(s2)]

C7_PendingCountMatches ==
    \A fid \in DOMAIN folders :
        folders[fid].pending_count =
            Cardinality({sid \in DOMAIN suggestions :
                            /\ suggestions[sid].watched_folder_id = fid
                            /\ IsPending(suggestions[sid])})

(***************************************************************************)
(* Properties of rollback_rename                                           *)
(***************************************************************************)
RenameEntries(log, aid) ==
    {i \in DOMAIN log : log[i].action_type = "rename" /\ log[i].asset_id = aid}

\* C8: executing an Approved suggestion and then rolling back the Rename
\* entry that execute wrote succeeds, leaves current_filename equal to
\* original_filename with the file back at its original path, leaves exactly
\* two Rename entries more for the asset (the execute's, unmodified, and the
\* rollback's), and leaves the suggestion Applied.
C8_RollbackInvertsExecute ==
    \A sid \in ApprovedIds, b \in BOOLEAN :
        LET w1 == ExecuteSuggestion(World, sid, b, "none")
            e == Len(w1.log)
            w2 == RollbackRename(w1, e, "none")
            aid == AssetOf(sid)
        IN  w1.success
            => /\ w2.success
               /\ w2.images[aid].current_filename = w2.images[aid].original_filename
               /\ FilePath(w2.images[aid]) = OldPath(sid)
               /\ Exists(w2.fs, OldPath(sid))
               /\ w2.fs[OldPath(sid)] = fs[OldPath(sid)]
               /\ NewPath(sid) # OldPath(sid) => ~Exists(w2.fs, NewPath(sid))
               /\ RenameEntries(w2.log, aid) = RenameEntries(activity_log, aid) \cup {e, e + 1}
               /\ Len(w2.log) = e + 1
               /\ SubSeq(w2.log, 1, e) = w1.log
               /\ w2.log[e + 1] = LogEntry(suggestions[sid].watched_folder_id, aid, "rename",
                                           NewName(sid), images[aid].original_filename,
                                           "success", TRUE)
               /\ w2.suggestions[sid].status = "applied"

\* an applied suggestion whose rename has been rolled back: the execute's
\* entry is followed by the rollback's and the file is at its original path
C8_Witness ==
    \E sid \in DOMAIN suggestions, e \in DOMAIN activity_log :
        LET aid == AssetOf(sid)
        IN  /\ suggestions[sid].status = "applied"
            /\ e + 1 \in DOMAIN activity_log
            /\ IsSuccessfulRename(activity_log[e])
            /\ activity_log[e].asset_id = aid
            /\ ~activity_log[e].rollback
            /\ activity_log[e].new_filename # activity_log[e].original_filename
            /\ activity_log[e + 1].rollback
            /\ activity_log[e + 1].asset_id = aid
            /\ RenameEntries(activity_log, aid) = {e, e + 1}
            /\ images[aid].current_filename = images[aid].original_filename
            /\ Exists(fs, FilePath(images[aid]))

\* C9: rollback_rename fails and changes no file, no image row and no activity
\* entry unless the entry exists, is a successful Rename and the original
\* filename is free in the asset's directory; a successful rollback appends
\* exactly one Rename entry and modifies no existing entry.
C9_RollbackPreconditions ==
    \A log_id \in 1..(Len(activity_log) + 1), fault \in RollbackFaults :
        LET w == RollbackRename(World, log_id, fault)
            allowed ==
                /\ log_id \in DOMAIN activity_log
                /\ IsSuccessfulRename(activity_log[log_id])
                /\ activity_log[log_id].asset_id \in DOMAIN images
                /\ LET image == images[activity_log[log_id].asset_id]
                   IN  ~Exists(fs, PathOf(image.dir, activity_log[log_id].original_filename))
        IN  /\ ~allowed => /\ ~w.success
                           /\ w.fs = fs
                           /\ w.images = images
                           /\ w.log = activity_log
            /\ w.success => /\ Len(w.log) = Len(activity_log) + 1
                            /\ SubSeq(w.log, 1, Len(activity_log)) = activity_log
                            /\ w.log[Len(w.log)].action_type = "rename"

(***************************************************************************)
(* Properties of execute_batch                                             *)
(***************************************************************************)
BatchCalls ==
    {c \in [ids : ExecLists, k : BatchFaultAt, fault : BatchFaults] :
        c.k <= Len(c.ids) /\ ((c.k = 0) <=> (c.fault = "none"))}

\* C10: execute_batch returns one result per requested id, in request order,
\* each the outcome of executing that id after the ones before it whether or
\* not they failed; total = succeeded + failed = the number of ids; and N
\* Approved suggestions of which exactly one collides give N-1 successes and
\* one failure.
C10_BatchIndependent ==
    \A c \in BatchCalls, b \in BOOLEAN :
        LET n == Len(c.ids)
            w == ExecuteBatch(World, c.ids, b, c.k, c.fault)
            sum == BatchSummary(c.ids, w.results)
            Before(i) == ExecuteBatch(World, SubSeq(c.ids, 1, i - 1), b,
                                      IF c.k < i THEN c.k ELSE 0,
                                      IF c.k < i THEN c.fault ELSE "none")
            Alone(i) == ExecuteSuggestion(Return(Before(i), FALSE, "none", "none"), c.ids[i], b,
                                          IF c.k = i THEN c.fault ELSE "none")
        IN  /\ Len(w.results) = n
            /\ \A i \in 1..n :
                LET alone == Alone(i)
                IN  /\ w.results[i].suggestion_id = c.ids[i]
                    /\ w.results[i].success = alone.success
                    /\ w.results[i].error = alone.error
            /\ sum.total = n
            /\ sum.succeeded + sum.failed = n
            /\ (/\ c.fault = "none"
                /\ \A i \in 1..n, j \in 1..n : c.ids[i] = c.ids[j] => i = j
                /\ \A i \in 1..n : /\ c.ids[i] \in ApprovedIds
                                   /\ Exists(fs, OldPath(c.ids[i]))
                /\ Cardinality({i \in 1..n : w.results[i].error = "target_exists"}) = 1)
                    => sum.succeeded = n - 1 /\ sum.failed = 1

\* the state a batch of two Approved suggestions with the same destination
\* leaves: the first applied and its file at the destination, the second still
\* at its own path with the destination taken
C10_Witness ==
    \E s1 \in DOMAIN suggestions, s2 \in ApprovedIds :
        /\ suggestions[s1].status = "applied"
        /\ FilePath(images[AssetOf(s1)]) = NewPath(s2)
        /\ Exists(fs, NewPath(s2))
        /\ Exists(fs, OldPath(s2))
        /\ OldPath(s2) # NewPath(s2)
        /\ activity_log # <<>>
        /\ IsSuccessfulRename(activity_log[Len(activity_log)])
        /\ activity_log[Len(activity_log)].asset_id = AssetOf(s1)
        /\ LET w == ExecuteBatch(World, <<s2>>, TRUE, 0, "none")
           IN  w.results[1].error = "target_exists"

(***************************************************************************)
(* Properties of the FileProcessor                                         *)
(***************************************************************************)
\* C11: a second process_file for a source path that was imported
\* successfully returns success and leaves the Image rows, the suggestions
\* and the folder counters as the first call left them.
C11_ImportIdempotent ==
    \A f \in FolderIds, path \in InboxPaths, ai1 \in AiResults, ai2 \in AiResults :
        LET w1 == ProcessFile(World, f, path, next_uuid + 1, ai1, "none")
            w2 == ProcessFile(Return(w1, FALSE, "none", "none"), f, path, next_uuid + 2,
                              ai2, "none")
        IN  w1.success
            => /\ w2.success
               /\ w2.images = w1.images
               /\ w2.suggestions = w1.suggestions
               /\ w2.folders = w1.folders

\* C13: whatever stage of process_file raises, the call returns failure, one
\* Error entry with status failure is appended, no Image row is added and the
\* folder's analyzed_count and pending_count stay as they were.
C13_FailureConfinedToItem ==
    \A f \in FolderIds, path \in InboxPaths, ai \in AiResults,
       fault \in ProcessFaults \ {"none"} :
        LET w == ProcessFile(World, f, path, next_uuid + 1, ai, fault)
        IN  w.fired = fault
            => /\ ~w.success
               /\ Len(w.log) = Len(activity_log) + 1
               /\ w.log[Len(w.log)].action_type = "error"
               /\ w.log[Len(w.log)].status = "failure"
               /\ w.images = images
               /\ w.suggestions = suggestions
               /\ w.folders = folders

C12_SingleConsumer ==
    /\ [](Len(workers) <= 1 /\ (workers # <<>> => running))
    /\ [][Len(queue') < Len(queue) =>
            \E i \in DOMAIN workers :
                /\ workers[i].pc = "waiting"
                /\ queue' = Tail(queue)
                /\ workers' = [workers EXCEPT ![i].pc = "loading",
                                              ![i].item = Head(queue)]]_vars

\* the one consumer is in the middle of an item while the next one waits
C12_Witness ==
    /\ Len(workers) = 1
    /\ workers[1].pc = "analysing"
    /\ queue # <<>>
    /\ images # <<>>

\* C14: a stop() that arrives while an item is being processed leaves that
\* item in the hands of its consumer, to be run to completion.
C14_StopLetsItemFinish ==
    [][(running /\ ~running') =>
            \A i \in DOMAIN workers :
                workers[i].pc # "waiting" =>
                    i \in DOMAIN workers' /\ workers'[i] = workers[i]]_vars

\* C15: no folder ever has two scans in progress, a scan being in progress
\* from the moment it has set the folder to Scanning until it returns.
C15_OneScanPerFolder ==
    \A f \in FolderIds :
        Cardinality({i \in DOMAIN scans :
                        scans[i].folder_id = f /\ scans[i].pc \in {"marked", "listed"}}) <= 1

\* C16: after any sequence of add, remove, pause, resume, start and stop a
\* folder has one started Observer when it is registered and none when it is
\* not, and add_watcher for a registered folder returns False and changes
\* neither the registry nor the Observers.
C16_OneWatcherPerFolder ==
    \A f \in FolderIds :
        /\ observing[f] = (IF watchers[f] THEN 1 ELSE 0)
        /\ watchers[f] =>
                AddWatcher(watchers, observing, f) = Registry(watchers, observing, FALSE)

\* start() is about to call add_watcher for a folder that resume_watcher has
\* registered already
C16_Witness ==
    \E f \in FolderIds :
        /\ ~running
        /\ watchers[f]
        /\ observing[f] = 1
        /\ folders[f].status = "active"

\* C17: no increment is lost: whenever a step adds a suggestion to a folder,
\* the folder's pending_count after the step is one more than before it.
C17_NoLostUpdate ==
    [][\A f \in FolderIds :
            Cardinality({s \in DOMAIN suggestions' : suggestions'[s].watched_folder_id = f})
                > Cardinality({s \in DOMAIN suggestions : suggestions[s].watched_folder_id = f})
            => folders'[f].pending_count = folders[f].pending_count + 1]_vars

\* C18: a created event for a regular, non-hidden file with an allowed
\* extension under a registered watcher puts the file on the queue; directory
\* events, modified events and other files put nothing there.
C18_CreatedFilesAreEnqueued ==
    \A f \in FolderIds, name \in EventNames, d \in BOOLEAN :
        watchers[f] =>
            /\ OnCreated(queue, f, name, d) =
                    IF ~d /\ IsValidFile(name)
                    THEN Append(queue, Item(f, PathOf(Inbox, name)))
                    ELSE queue
            /\ OnModified(queue, f, name, d) = queue

(***************************************************************************)
(* Properties of the backup protocol of execute_suggestion                 *)
(***************************************************************************)
BackupPath(sid) == PathOf(OldPath(sid)[1], BackupName(OldPath(sid)[2]))

\* the calls with backups whose source file is there and whose destination is
\* free, with the failure that happened in each
BackupCalls ==
    {c \in [sid : ApprovedIds, fault : BackupFaults] :
        /\ Exists(fs, OldPath(c.sid))
        /\ ~TargetExists(fs, OldPath(c.sid), NewPath(c.sid))
        /\ ExecuteSuggestion(World, c.sid, TRUE, c.fault).fired = c.fault}

C30_OtherFilesUntouched ==
    \A sid \in ApprovedIds, fault \in BackupFaults :
        LET w == ExecuteSuggestion(World, sid, TRUE, fault)
        IN  \A p \in DOMAIN fs \ {OldPath(sid)} :
                Exists(w.fs, p) /\ w.fs[p] = fs[p]

(***************************************************************************)
(* Properties of the folder counters and statuses                          *)
(***************************************************************************)
\* the progress get_folder_progress reports and _broadcast_worker broadcasts
Progress(folder) ==
    IF folder.file_count > 0
    THEN (folder.analyzed_count * 100) \div folder.file_count
    ELSE 0

\* C28: for every watched folder analyzed_count is at most file_count, and the
\* progress percentage computed from them is within 0..100.
C28_ProgressWithinBounds ==
    \A f \in DOMAIN folders :
        /\ folders[f].analyzed_count <= folders[f].file_count
        /\ Progress(folders[f]) \in 0..100

(***************************************************************************)
(* Properties of concurrent requests on one suggestion                     *)
(***************************************************************************)
TerminalStatuses == {"applied", "rejected", "failed"}

\* C26: under any interleaving of the reads and writes of concurrent approve,
\* reject and execute requests, a terminal status (Applied, Rejected, Failed)
\* that has been committed is never replaced by another status; so a
\* suggestion whose file execute has renamed does not end Rejected or Pending.
C26_TerminalStatusKept ==
    [][\A sid \in DOMAIN suggestions :
            suggestions[sid].status \in TerminalStatuses
                => suggestions'[sid].status = suggestions[sid].status]_vars

(***************************************************************************)
(* Properties of the watched folders' statuses                             *)
(***************************************************************************)
\* C29: a folder that pause_watcher left Paused keeps the status Paused and
\* has no registered watcher until resume_watcher registers one and sets the
\* status Active: no step of a scan and no step of the consumer takes the
\* status away from Paused
C29_PausedUntilResumed ==
    /\ [](\A f \in DOMAIN folders : folders[f].status = "paused" => ~watchers[f])
    /\ [][\A f \in DOMAIN folders :
            (folders[f].status = "paused" /\ folders'[f].status # "paused")
                => (folders'[f].status = "active" /\ watchers'[f])]_vars

\* the regular files under the folder's path that have an allowed extension
\* and no leading dot
ValidFilesUnder(folder_id) ==
    {p \in DOMAIN fs : /\ p[1] = FolderPath(folder_id)
                       /\ IsImage(p[2]) \/ IsVideo(p[2])
                       /\ p[2][1] # ""}

C24_StatusDrivenByManager ==
    [][\A f \in DOMAIN folders :
        folders'[f].status # folders[f].status
            => \/ folders'[f].status = "paused"
               \/ folders[f].status = "paused" /\ folders'[f].status = "active" /\ watchers'[f]
               \/ scans' # scans]_vars

\* C27: a folder whose status is Scanning leaves that status, for Active,
\* Error or Paused, when the tasks that are ready are run and start() is
\* called; this is to hold as well of the folder whose row has the status
\* Scanning when the manager is started
C27_ScanningEnds ==
    \A f \in AllFolders :
        (folders[f].status = "scanning") ~> (folders[f].status # "scanning")
====
